---- MODULE Spec2Model ----
(***************************************************************************)
(* Model of Inv-Agent/main.py: the manageInventory tool over the sqlite    *)
(* table `inventory`, the agent run that calls it, and the listing that    *)
(* main() prints after the final output.                                   *)
(***************************************************************************)
EXTENDS Integers, Sequences, FiniteSets, TLC

\* ------------------------------------------------------------------ bounds
\* Largest number of successful inserts explored (caps the id counter).
MaxId == 2

\* ----------------------------------------------------------- input domains
\* An optional field of InventoryItemInput: None is <<>>, a value v is <<v>>.
None == <<>>

Some(v) == <<v>>

\* item.operation as text, one character per element.
OpAdd == <<"a", "d", "d">>

OpUpdate == <<"u", "p", "d", "a", "t", "e">>

OpDelete == <<"d", "e", "l", "e", "t", "e">>

OpCreate == <<"c", "r", "e", "a", "t", "e">>

Operations ==
    { OpAdd, <<"A", "d", "d">>, OpCreate, <<"C", "R", "E", "A", "T", "E">>,
      OpUpdate, <<"U", "P", "D", "A", "T", "E">>, OpDelete, <<"l", "i", "s", "t">> }

Ids == {None} \cup {Some(i) : i \in 1..(MaxId + 1)}

Names == {None, Some(""), Some("Bolt"), Some("Nut")}

Quantities == {None, Some(-1), Some(0), Some(5)}

\* InventoryItemInput (dataclass): operation, id, name, quantity.
InventoryItemInput ==
    [operation : Operations, id : Ids, name : Names, quantity : Quantities]

NoItem == [operation |-> <<>>, id |-> None, name |-> None, quantity |-> None]

\* ------------------------------------------------------------ str.lower()
LowerChar(ch) ==
    CASE ch = "A" -> "a"
      [] ch = "C" -> "c"
      [] ch = "D" -> "d"
      [] ch = "E" -> "e"
      [] ch = "P" -> "p"
      [] ch = "R" -> "r"
      [] ch = "T" -> "t"
      [] ch = "U" -> "u"
      [] OTHER -> ch

LowerIdentity(s) == s

Lower(s) == [k \in DOMAIN s |-> LowerChar(s[k])]

\* `not item.name`: None and the empty string are both falsy.
NameIsNoneOnly(name) == name = None

NotName(name) == name = None \/ name = Some("")

\* `item.x is None`
IsNone(x) == x = None

\* ------------------------------------------------------------- the table
\* A table is a function from the ids present to [name, quantity].
EmptyTable == [i \in {} |-> [name |-> "", quantity |-> 0]]

MaxOf(S) == IF S = {} THEN 0 ELSE CHOOSE m \in S : \A k \in S : k <= m

\* INTEGER PRIMARY KEY without AUTOINCREMENT: largest rowid in the table + 1.
NextRowidNoAutoincrement(rows, seq) == MaxOf(DOMAIN rows) + 1

\* INTEGER PRIMARY KEY AUTOINCREMENT: one more than the largest rowid ever
\* used (sqlite_sequence) or present in the table.
NextRowid(rows, seq) == MaxOf(DOMAIN rows \cup {seq}) + 1

\* ---------------------------------------------------------- a connection
\* db/seq are the committed table and sqlite_sequence; work/wseq are what the
\* connection sees inside its (implicit) transaction.
Connect(db, seq) ==
    [db |-> db, seq |-> seq, work |-> db, wseq |-> seq,
     connOpen |-> TRUE, txnOpen |-> FALSE,
     stmts |-> 0, rowcount |-> -1, lastrowid |-> 0]

\* c.execute("INSERT INTO inventory (name, quantity) VALUES (?, ?)")
ExecInsert(c, name, quantity) ==
    LET newId == NextRowid(c.work, c.wseq)
    IN  [c EXCEPT !.work = (newId :> [name |-> name, quantity |-> quantity]) @@ c.work,
                  !.wseq = newId,
                  !.txnOpen = TRUE,
                  !.stmts = @ + 1,
                  !.rowcount = 1,
                  !.lastrowid = newId]

\* UPDATE with the name column left out of the SET list.
ExecUpdateQuantityOnly(c, name, quantity, id) ==
    [c EXCEPT !.work = [j \in DOMAIN c.work |->
                          IF j = id THEN [c.work[j] EXCEPT !.quantity = quantity]
                          ELSE c.work[j]],
              !.txnOpen = TRUE,
              !.stmts = @ + 1,
              !.rowcount = IF id \in DOMAIN c.work THEN 1 ELSE 0]

\* UPDATE turned into an upsert: a missing id is inserted.
ExecUpsert(c, name, quantity, id) ==
    [c EXCEPT !.work = (id :> [name |-> name, quantity |-> quantity]) @@ c.work,
              !.txnOpen = TRUE,
              !.stmts = @ + 1,
              !.rowcount = 1]

\* c.execute("UPDATE inventory SET name = ?, quantity = ? WHERE id = ?")
ExecUpdate(c, name, quantity, id) ==
    [c EXCEPT !.work = [j \in DOMAIN c.work |->
                          IF j = id THEN [name |-> name, quantity |-> quantity]
                          ELSE c.work[j]],
              !.txnOpen = TRUE,
              !.stmts = @ + 1,
              !.rowcount = IF id \in DOMAIN c.work THEN 1 ELSE 0]

\* DELETE with `id <= ?` in place of `id = ?`.
ExecDeleteUpTo(c, id) ==
    [c EXCEPT !.work = [j \in {k \in DOMAIN c.work : k > id} |-> c.work[j]],
              !.txnOpen = TRUE,
              !.stmts = @ + 1,
              !.rowcount = Cardinality({k \in DOMAIN c.work : k <= id})]

\* c.execute("DELETE FROM inventory WHERE id = ?")
ExecDelete(c, id) ==
    [c EXCEPT !.work = [j \in DOMAIN c.work \ {id} |-> c.work[j]],
              !.txnOpen = TRUE,
              !.stmts = @ + 1,
              !.rowcount = IF id \in DOMAIN c.work THEN 1 ELSE 0]

\* conn.commit()
Commit(c) == [c EXCEPT !.db = c.work, !.seq = c.wseq, !.txnOpen = FALSE]

\* close() that commits the pending transaction.
CloseCommitting(c) ==
    [c EXCEPT !.db = c.work, !.seq = c.wseq, !.txnOpen = FALSE, !.connOpen = FALSE]

\* close() that is skipped when the transaction is still pending.
CloseUnlessPending(c) ==
    IF c.txnOpen THEN c
    ELSE [c EXCEPT !.work = c.db, !.wseq = c.seq, !.txnOpen = FALSE, !.connOpen = FALSE]

\* conn.close(): a pending transaction is rolled back.
Close(c) ==
    [c EXCEPT !.work = c.db, !.wseq = c.seq, !.txnOpen = FALSE, !.connOpen = FALSE]

\* ------------------------------------------------- the tool's return texts
MsgAdded(name, id, quantity) ==
    [fmt |-> "Added {name} with ID {id} and quantity {quantity}.",
     name |-> name, id |-> id, quantity |-> quantity]

MsgUpdated(id, name, quantity) ==
    [fmt |-> "Updated item ID {id} to {name} with quantity {quantity}.",
     id |-> id, name |-> name, quantity |-> quantity]

MsgDeleted(id) == [fmt |-> "Deleted item ID {id}.", id |-> id]

ErrNotFound(id) == [fmt |-> "Error: Item with ID {id} not found.", id |-> id]

\* The add failure worded for the name alone.
ErrNameRequired == [fmt |-> "Error: Name is required for adding an item."]

ErrAddRequired ==
    [fmt |-> "Error: Name and quantity are required for adding an item."]

ErrUpdateRequired ==
    [fmt |-> "Error: ID, name, and quantity are required for updating an item."]

ErrDeleteRequired == [fmt |-> "Error: ID is required for deleting an item."]

ErrInvalidOperation ==
    [fmt |-> "Error: Invalid operation. Use 'add', 'update', or 'delete'."]

\* except Exception as e: return f"Error: {str(e)}"
ErrException(e) == [fmt |-> "Error: {e}", e |-> e]

NoRet == [fmt |-> ""]

\* ------------------------------------------------------- store-level faults
\* "prepare": the statement cannot be compiled (no such table);
\* "step":    the statement fails while running (I/O error, constraint), after
\*            the implicit BEGIN; no row is changed;
\* "commit":  conn.commit() fails and the transaction stays pending.
Faults == {"none", "prepare", "step", "commit"}

\* c.execute(...) under a fault: `applied` is the connection after the
\* statement ran; exc is the text of the exception raised, "" for none.
RunStatement(c, applied, fault) ==
    IF fault = "prepare" THEN [c |-> c, exc |-> "no such table: inventory"]
    ELSE IF fault = "step"
         THEN [c |-> [c EXCEPT !.txnOpen = TRUE, !.stmts = @ + 1],
               exc |-> "disk I/O error"]
         ELSE [c |-> applied, exc |-> ""]

\* conn.commit() under a fault.
RunCommit(c, fault) ==
    IF fault = "commit" THEN [c |-> c, exc |-> "database is locked"]
    ELSE [c |-> Commit(c), exc |-> ""]

\* --------------------------------------------------------- manageInventory
\* The whole tool call: connect, dispatch on the lowered operation, and the
\* finally clause. Yields the connection as it is left and the text returned.
manageInventory(item, db, seq, fault) ==
    LET operation == Lower(item.operation)
        conn == Connect(db, seq)
        Ret(c, r) == [conn |-> c, ret |-> r]
        body ==
          IF operation = OpAdd THEN
            IF NotName(item.name) \/ IsNone(item.quantity)
            THEN Ret(conn, ErrAddRequired)
            ELSE LET x == RunStatement(conn,
                            ExecInsert(conn, item.name[1], item.quantity[1]), fault)
                 IN  IF x.exc # "" THEN Ret(x.c, ErrException(x.exc))
                     ELSE LET k == RunCommit(x.c, fault)
                          IN  IF k.exc # "" THEN Ret(k.c, ErrException(k.exc))
                              ELSE Ret(k.c, MsgAdded(item.name[1], k.c.lastrowid,
                                                     item.quantity[1]))
          ELSE IF operation = OpUpdate THEN
            IF IsNone(item.id) \/ NotName(item.name) \/ IsNone(item.quantity)
            THEN Ret(conn, ErrUpdateRequired)
            ELSE LET x == RunStatement(conn,
                            ExecUpdate(conn, item.name[1], item.quantity[1],
                                       item.id[1]), fault)
                 IN  IF x.exc # "" THEN Ret(x.c, ErrException(x.exc))
                     ELSE IF x.c.rowcount = 0 THEN Ret(x.c, ErrNotFound(item.id[1]))
                     ELSE LET k == RunCommit(x.c, fault)
                          IN  IF k.exc # "" THEN Ret(k.c, ErrException(k.exc))
                              ELSE Ret(k.c, MsgUpdated(item.id[1], item.name[1],
                                                       item.quantity[1]))
          ELSE IF operation = OpDelete THEN
            IF IsNone(item.id)
            THEN Ret(conn, ErrDeleteRequired)
            ELSE LET x == RunStatement(conn, ExecDelete(conn, item.id[1]), fault)
                 IN  IF x.exc # "" THEN Ret(x.c, ErrException(x.exc))
                     ELSE IF x.c.rowcount = 0 THEN Ret(x.c, ErrNotFound(item.id[1]))
                     ELSE LET k == RunCommit(x.c, fault)
                          IN  IF k.exc # "" THEN Ret(k.c, ErrException(k.exc))
                              ELSE Ret(k.c, MsgDeleted(item.id[1]))
          ELSE Ret(conn, ErrInvalidOperation)
    IN  [conn |-> Close(body.conn), ret |-> body.ret]

\* ---------------------------------------------------------- fetch_inventory
RECURSIVE RowsOf(_, _)
RowsOf(db, ids) ==
    IF ids = {} THEN <<>>
    ELSE LET m == CHOOSE k \in ids : \A j \in ids : k <= j
         IN  <<<<m, db[m].name, db[m].quantity>>>> \o RowsOf(db, ids \ {m})

\* SELECT * FROM inventory: every row, in rowid order.
fetch_inventory(db) == RowsOf(db, DOMAIN db)

\* ------------------------------------------------------ the final output
\* Texts are sequences of characters.
IsInventoryText == <<"i", "s", " ", "i", "n", "v", "e", "n", "t", "o", "r", "y">>

NotInventoryText == <<"n", "o", "t", " ", "i", "n", "v", "e", "n", "t", "o", "r", "y">>

\* What the agent is instructed to put in response_type.
ClassText(classification) ==
    IF classification = "is_inventory" THEN IsInventoryText ELSE NotInventoryText

Classifications == {"is_inventory", "not_inventory"}

\* Free-text summaries the model may write into inventory_data.
Summaries ==
    { <<"d", "o", "n", "e">>,
      <<"t", "h", "i", "s", " ", "i", "n", "v", "e", "n", "t", "o", "r", "y">>,
      <<"n", "o", " ", "i", "t", "e", "m", "s">>,
      <<>> }

\* The final output: the response_type text, then the inventory_data text.
FinalOutput(classification, summary) ==
    ClassText(classification) \o <<",", " ">> \o summary

\* Python's `needle in hay` on str.
Contains(needle, hay) ==
    \E i \in 1..(Len(hay) - Len(needle) + 1) :
        SubSeq(hay, i, i + Len(needle) - 1) = needle

\* if result.final_output and "is inventory" in result.final_output
ShouldList(output) == output # <<>> /\ Contains(IsInventoryText, output)

\* ------------------------------------------------------------------ state
VARIABLES
    store,           \* committed rows of table inventory (inventory.db)
    seq,             \* sqlite_sequence value of table inventory
    connOpen,        \* the tool's connection is open
    txnOpen,         \* the tool's connection has a pending transaction
    stmts,           \* INSERT/UPDATE/DELETE statements run by the last tool call
    pc,              \* where the agent run stands
    item,            \* argument of the tool call in progress
    ret,             \* text the tool call returned
    fault,           \* store fault injected into the tool call
    before,          \* rows of the table when the tool call started
    issued,          \* ids returned by successful adds, oldest first
    final_output,    \* result.final_output
    classification,  \* response_type the model meant
    listing          \* rows printed under "Current Inventory:", None if not printed

vars == <<store, seq, connOpen, txnOpen, stmts, pc, item, ret, fault, before,
          issued, final_output, classification, listing>>

\* start() on a fresh directory: init_db() creates the empty table, then
\* main() hands the message to Runner.run.
Init ==
    /\ store = EmptyTable
    /\ seq = 0
    /\ connOpen = FALSE
    /\ txnOpen = FALSE
    /\ stmts = 0
    /\ pc = "awaiting"
    /\ item = NoItem
    /\ ret = NoRet
    /\ fault = "none"
    /\ before = EmptyTable
    /\ issued = <<>>
    /\ final_output = <<>>
    /\ classification = "none"
    /\ listing = None

\* The model answers with a call of the manageInventory tool.
EmitToolCall ==
    /\ pc = "awaiting"
    /\ \E it \in InventoryItemInput :
          /\ Lower(it.operation) = OpAdd => Len(issued) < MaxId
          /\ item' = it
    /\ pc' = "tool"
    /\ UNCHANGED <<store, seq, connOpen, txnOpen, stmts, ret, fault, before,
                   issued, final_output, classification, listing>>

\* The tool call runs from connect to the finally clause.
RunTool(f) ==
    /\ pc = "tool"
    /\ LET r == manageInventory(item, store, seq, f)
       IN  /\ store' = r.conn.db
           /\ seq' = r.conn.seq
           /\ connOpen' = r.conn.connOpen
           /\ txnOpen' = r.conn.txnOpen
           /\ stmts' = r.conn.stmts
           /\ ret' = r.ret
           /\ issued' = IF r.ret.fmt = MsgAdded("", 0, 0).fmt
                        THEN Append(issued, r.ret.id) ELSE issued
    /\ fault' = f
    /\ pc' = "returned"
    /\ UNCHANGED <<item, before, final_output, classification, listing>>

\* manageInventory with a healthy store.
ManageInventory == RunTool("none")

\* manageInventory with a store that may fail at execute or at commit.
ManageInventoryUnderFault == \E f \in Faults : RunTool(f)

\* The returned text goes back to the model, which is asked again.
FeedBack ==
    /\ pc = "returned"
    /\ pc' = "awaiting"
    /\ item' = NoItem
    /\ ret' = NoRet
    /\ fault' = "none"
    /\ stmts' = 0
    /\ before' = store
    /\ UNCHANGED <<store, seq, connOpen, txnOpen, issued, final_output,
                   classification, listing>>

\* The model answers with its final output; main() prints it and, when the
\* text matches, the current inventory.
FinalSummary ==
    /\ pc = "awaiting"
    /\ \E c \in Classifications, s \in Summaries :
          /\ classification' = c
          /\ final_output' = FinalOutput(c, s)
          /\ listing' = IF ShouldList(FinalOutput(c, s))
                        THEN Some(fetch_inventory(store)) ELSE None
    /\ pc' = "done"
    /\ UNCHANGED <<store, seq, connOpen, txnOpen, stmts, item, ret, fault,
                   before, issued>>

\* The program is started again: inventory.db exists and is re-used.
Start ==
    /\ pc = "done"
    /\ pc' = "awaiting"
    /\ final_output' = <<>>
    /\ classification' = "none"
    /\ listing' = None
    /\ UNCHANGED <<store, seq, connOpen, txnOpen, stmts, item, ret, fault,
                   before, issued>>

Next == EmitToolCall \/ ManageInventory \/ FeedBack \/ FinalSummary \/ Start

Spec == Init /\ [][Next]_vars

FaultNext ==
    EmitToolCall \/ ManageInventoryUnderFault \/ FeedBack \/ FinalSummary \/ Start

FaultSpec == Init /\ [][FaultNext]_vars

\* ======================================================== properties
\* Vocabulary of the properties, written without the model's own helpers.
CasePairs ==
    { <<"A", "a">>, <<"C", "c">>, <<"D", "d">>, <<"E", "e">>, <<"L", "l">>,
      <<"P", "p">>, <<"R", "r">>, <<"T", "t">>, <<"U", "u">> }

\* op spells word, in any letter case.
Spells(op, word) ==
    /\ Len(op) = Len(word)
    /\ \A k \in 1..Len(word) : op[k] = word[k] \/ <<op[k], word[k]>> \in CasePairs

HasName(it) == it.name # None /\ it.name # Some("")

HasQuantity(it) == it.quantity # None

HasId(it) == it.id # None

Returned == pc = "returned"

Added == ret.fmt = "Added {name} with ID {id} and quantity {quantity}."

Updated == ret.fmt = "Updated item ID {id} to {name} with quantity {quantity}."

Deleted == ret.fmt = "Deleted item ID {id}."

NotFound == ret.fmt = "Error: Item with ID {id} not found."

\* Exactly one record is new, it carries the request's name and quantity, and
\* the text returned is the success text for its id.
InsertedOne ==
    \E i \in DOMAIN store :
        /\ DOMAIN store \ DOMAIN before = {i}
        /\ store[i] = [name |-> item.name[1], quantity |-> item.quantity[1]]
        /\ ret = [fmt |-> "Added {name} with ID {id} and quantity {quantity}.",
                  name |-> item.name[1], id |-> i, quantity |-> item.quantity[1]]

\* C1 as stated: every request whose kind is `create`, in any letter case,
\* with a non-empty name and a present quantity inserts exactly one record
\* and returns the "Added ..." text for its id.
C1_CreateKindInserts ==
    (Returned /\ Spells(item.operation, OpCreate) /\ HasName(item) /\ HasQuantity(item))
        => InsertedOne

\* C1 amended: every request whose kind is `add`, in any letter case, with a
\* non-empty name and a present quantity inserts exactly one record carrying
\* that name and quantity under a store-assigned id and returns
\* "Added {name} with ID {id} and quantity {quantity}." for that id.
C1_AddKindInserts ==
    (Returned /\ Spells(item.operation, OpAdd) /\ HasName(item) /\ HasQuantity(item))
        => InsertedOne

C1_Witness ==
    /\ Returned
    /\ item.operation = <<"A", "d", "d">>
    /\ Added
    /\ before # EmptyTable

\* C2: an update or delete request (with the fields its kind requires) naming
\* an id that is not in the store returns the not-found failure for that id
\* and leaves the store as it was.
C2_NotFoundSafety ==
    (/\ Returned
     /\ \/ Spells(item.operation, OpUpdate) /\ HasId(item) /\ HasName(item)
           /\ HasQuantity(item)
        \/ Spells(item.operation, OpDelete) /\ HasId(item)
     /\ item.id[1] \notin DOMAIN before)
        => /\ ret = [fmt |-> "Error: Item with ID {id} not found.", id |-> item.id[1]]
           /\ store = before

C2_Witness ==
    /\ Returned
    /\ NotFound
    /\ Spells(item.operation, OpUpdate)
    /\ before # EmptyTable

\* The request names a kind outside add/update/delete, or lacks a field its
\* kind requires (an empty name counts as missing).
IllFormed(it) ==
    \/ /\ ~Spells(it.operation, OpAdd)
       /\ ~Spells(it.operation, OpUpdate)
       /\ ~Spells(it.operation, OpDelete)
    \/ /\ Spells(it.operation, OpAdd) \/ Spells(it.operation, OpCreate)
       /\ ~HasName(it) \/ ~HasQuantity(it)
    \/ /\ Spells(it.operation, OpUpdate)
       /\ ~HasId(it) \/ ~HasName(it) \/ ~HasQuantity(it)
    \/ /\ Spells(it.operation, OpDelete)
       /\ ~HasId(it)

\* C3: an ill-formed request never reaches the store: no insert, update or
\* delete statement is run and the store is unchanged after the call.
C3_IllFormedNeverReachesStore ==
    (Returned /\ IllFormed(item)) => (stmts = 0 /\ store = before /\ ~Added)

C3_Witness ==
    /\ Returned
    /\ Spells(item.operation, OpAdd)
    /\ item.name = Some("")
    /\ HasQuantity(item)
    /\ before # EmptyTable

\* The fields a kind requires.
RequiredFields(word) ==
    IF word = OpUpdate THEN {"id", "name", "quantity"}
    ELSE IF word = OpDelete THEN {"id"}
    ELSE {"name", "quantity"}

\* The required fields of kind `word` that the request omits.
Omitted(it, word) ==
    RequiredFields(word) \cap
        ( (IF HasId(it) THEN {} ELSE {"id"})
          \cup (IF HasName(it) THEN {} ELSE {"name"})
          \cup (IF HasQuantity(it) THEN {} ELSE {"quantity"}) )

\* The fields a returned text names as required.
NamedFields(r) ==
    IF r.fmt = "Error: Name and quantity are required for adding an item."
    THEN {"name", "quantity"}
    ELSE IF r.fmt = "Error: ID, name, and quantity are required for updating an item."
    THEN {"id", "name", "quantity"}
    ELSE IF r.fmt = "Error: ID is required for deleting an item."
    THEN {"id"}
    ELSE {}

\* C4 as stated: for every kind in {create, update, delete} and every
\* non-empty set of omitted required fields, the failure returned names
\* exactly the omitted fields.
C4_NamesExactlyOmitted ==
    \A word \in {OpCreate, OpUpdate, OpDelete} :
        (Returned /\ Spells(item.operation, word) /\ Omitted(item, word) # {})
            => NamedFields(ret) = Omitted(item, word)

\* C4 amended: for every kind in {add, update, delete} and every non-empty
\* set of omitted required fields, the failure returned is the fixed text of
\* that kind, which names all of the kind's required fields, supplied or not.
C4_NamesAllRequired ==
    \A word \in {OpAdd, OpUpdate, OpDelete} :
        (Returned /\ Spells(item.operation, word) /\ Omitted(item, word) # {})
            => /\ NamedFields(ret) = RequiredFields(word)
               /\ DOMAIN ret = {"fmt"}

C4_Witness ==
    /\ Returned
    /\ Spells(item.operation, OpAdd)
    /\ Omitted(item, OpAdd) = {"name"}
    /\ NamedFields(ret) = {"name", "quantity"}

\* Reading one id out of what fetch_inventory returns: the row, or None.
Read(db, i) ==
    LET rows == fetch_inventory(db)
        hits == {k \in 1..Len(rows) : rows[k][1] = i}
    IN  IF hits = {} THEN None ELSE Some(rows[CHOOSE k \in hits : TRUE])

\* C5: the ids returned by successful creates are strictly increasing (so
\* pairwise distinct and never assigned twice, also after a delete), and the
\* record of a returned id is readable right after its create.
C5_IdsMonotonicNeverReused ==
    /\ \A a, b \in 1..Len(issued) : a < b => issued[a] < issued[b]
    /\ (Returned /\ Added) => Read(store, ret.id) # None

C5_Witness ==
    /\ Returned
    /\ Added
    /\ Len(issued) >= 2
    /\ issued[Len(issued) - 1] \notin DOMAIN before

\* A store fault was raised during the call: the request passed validation
\* and the failing statement or commit was reached.
FaultRaised ==
    /\ ~IllFormed(item)
    /\ \/ fault \in {"prepare", "step"}
       \/ /\ fault = "commit"
          /\ Spells(item.operation, OpAdd) \/ item.id[1] \in DOMAIN before

C7_RoundTrip ==
    Returned =>
        /\ Added => Read(store, ret.id) = Some(<<ret.id, item.name[1], item.quantity[1]>>)
        /\ Updated => Read(store, item.id[1])
                        = Some(<<item.id[1], item.name[1], item.quantity[1]>>)
        /\ Deleted => Read(store, item.id[1]) = None

C7_Witness ==
    /\ Returned
    /\ Updated
    /\ item.quantity[1] <= 0
    /\ \E k \in 1..Len(issued) : issued[k] = item.id[1]
    /\ before[item.id[1]].name # item.name[1]
    /\ before[item.id[1]].quantity # item.quantity[1]

\* C8: after the final summary the inventory is listed if and only if the
\* summary's classification is is_inventory, whatever the free text says.
C8_ListingIffClassified ==
    pc = "done" => ((listing # None) <=> (classification = "is_inventory"))

\* C9: every completed tool call, on every exit path, has released its
\* connection and left no write pending; while the loop waits on the model no
\* transaction is open.
C9_NoOpenTransactionWhileSuspended ==
    pc \in {"returned", "awaiting", "done"} => (~connOpen /\ ~txnOpen)

C9_Witness ==
    /\ Returned
    /\ fault = "commit"
    /\ Spells(item.operation, OpAdd)
    /\ ret.fmt = "Error: {e}"
    /\ ~connOpen

\* C10: a tool call runs at most one store statement and touches at most one
\* record: a create leaves every earlier record unchanged, an update changes
\* only the name and quantity of the record with the given id, a delete
\* removes only the record with the given id.
C10_OneRecordTouched ==
    Returned =>
        /\ stmts <= 1
        /\ Added =>
              /\ ret.id \notin DOMAIN before
              /\ DOMAIN store = DOMAIN before \cup {ret.id}
              /\ \A j \in DOMAIN before : store[j] = before[j]
        /\ Updated =>
              /\ item.id[1] \in DOMAIN before
              /\ DOMAIN store = DOMAIN before
              /\ \A j \in DOMAIN before \ {item.id[1]} : store[j] = before[j]
        /\ Deleted =>
              /\ item.id[1] \in DOMAIN before
              /\ DOMAIN store = DOMAIN before \ {item.id[1]}
              /\ \A j \in DOMAIN store : store[j] = before[j]

C10_Witness ==
    /\ Returned
    /\ Deleted
    /\ Cardinality(DOMAIN before) >= 2
    /\ \A j \in DOMAIN before : j <= item.id[1]

====
